---- MODULE Spec2Model ----
(***************************************************************************)
(* A model of the rule-based labelling service of src/app.py: the rule     *)
(* condition language (RuleEngine: parse_condition, parse_rule,            *)
(* evaluate_condition, evaluate_rule), the in-memory rule store, the       *)
(* classification pipeline with its bounded history, and the statistics    *)
(* cache.                                                                  *)
(*                                                                         *)
(* Text that the program parses (condition text, payload strings, field    *)
(* keys) is a sequence of one-character strings, so that splitting,        *)
(* stripping and numeric conversion are computed as the code computes      *)
(* them.  Labels are never parsed and are plain strings.                   *)
(*                                                                         *)
(* Numbers are held in tenths (the integer 5 is n = 50, the float 5.5 is   *)
(* n = 55), so numeric literals of the model carry at most one fractional  *)
(* digit and no sign or exponent.                                          *)
(***************************************************************************)
EXTENDS Integers, Sequences, FiniteSets, TLC

(***************************************************************************)
(* Python values: JSON scalars of a payload and coerced condition operands *)
(***************************************************************************)

MkInt(i) == [t |-> "int", n |-> 10 * i, s |-> <<>>]

MkFloat(tenths) == [t |-> "float", n |-> tenths, s |-> <<>>]

MkStr(chars) == [t |-> "str", n |-> 0, s |-> chars]

Null == [t |-> "null", n |-> 0, s |-> <<>>]

IsNum(v) == v.t \in {"int", "float"}

(***************************************************************************)
(* str methods                                                             *)
(***************************************************************************)

DigitChars == <<"0", "1", "2", "3", "4", "5", "6", "7", "8", "9">>

IsDigit(c) == \E i \in 1..10 : DigitChars[i] = c

DigitVal(c) == (CHOOSE i \in 1..10 : DigitChars[i] = c) - 1

\* sub in s : the index of the first occurrence of sub in s, 0 when absent
IndexOf(s, sub) ==
    IF \E i \in 1..(Len(s) - Len(sub) + 1) : SubSeq(s, i, i + Len(sub) - 1) = sub
    THEN CHOOSE i \in 1..(Len(s) - Len(sub) + 1) :
            /\ SubSeq(s, i, i + Len(sub) - 1) = sub
            /\ \A j \in 1..(i - 1) : SubSeq(s, j, j + Len(sub) - 1) # sub
    ELSE 0

Contains(s, sub) == IndexOf(s, sub) # 0

RECURSIVE LStripSet(_, _)
LStripSet(s, chars) ==
    IF s # <<>> /\ Head(s) \in chars THEN LStripSet(Tail(s), chars) ELSE s

RECURSIVE RStripSet(_, _)
RStripSet(s, chars) ==
    IF s # <<>> /\ s[Len(s)] \in chars
    THEN RStripSet(SubSeq(s, 1, Len(s) - 1), chars)
    ELSE s

\* s.strip(chars): every leading and trailing character of the set is removed
StripSet(s, chars) == RStripSet(LStripSet(s, chars), chars)

\* s.strip()
Strip(s) == StripSet(s, {" "})

\* s.split(sep)
RECURSIVE Split(_, _)
Split(s, sep) ==
    LET i == IndexOf(s, sep)
    IN  IF i = 0
        THEN <<s>>
        ELSE <<SubSeq(s, 1, i - 1)>> \o Split(SubSeq(s, i + Len(sep), Len(s)), sep)

\* s.split(sep, 1) of a string that holds sep
SplitOnce(s, sep) ==
    LET i == IndexOf(s, sep)
    IN  <<SubSeq(s, 1, i - 1), SubSeq(s, i + Len(sep), Len(s))>>

RECURSIVE NatOf(_)
NatOf(digits) ==
    IF digits = <<>> THEN 0
    ELSE 10 * NatOf(SubSeq(digits, 1, Len(digits) - 1)) + DigitVal(digits[Len(digits)])

RECURSIVE FmtNat(_)
FmtNat(k) ==
    IF k < 10 THEN <<DigitChars[k + 1]>>
    ELSE FmtNat(k \div 10) \o <<DigitChars[(k % 10) + 1]>>

\* float(text): [err |-> "", n |-> tenths], or err = "ValueError"
FloatOfText(chars) ==
    LET body == Strip(chars)
        dot  == IndexOf(body, <<".">>)
        ip   == IF dot = 0 THEN body ELSE SubSeq(body, 1, dot - 1)
        fp   == IF dot = 0 THEN <<>> ELSE SubSeq(body, dot + 1, Len(body))
        ok   == /\ Len(ip) + Len(fp) >= 1
                /\ \A i \in 1..Len(ip) : IsDigit(ip[i])
                /\ \A i \in 1..Len(fp) : IsDigit(fp[i])
    IN  IF ok
        THEN [err |-> "", n |-> 10 * NatOf(ip) + (IF fp = <<>> THEN 0 ELSE DigitVal(fp[1]))]
        ELSE [err |-> "ValueError", n |-> 0]

\* float(x) of any value
FloatOf(v) ==
    CASE v.t = "str"  -> FloatOfText(v.s)
      [] v.t = "null" -> [err |-> "TypeError", n |-> 0]
      [] OTHER        -> [err |-> "", n |-> v.n]

\* str(x), as a value
StrOf(v) ==
    CASE v.t = "str"   -> v
      [] v.t = "int"   -> MkStr(FmtNat(v.n \div 10))
      [] v.t = "float" -> MkStr(FmtNat(v.n \div 10) \o <<".", DigitChars[(v.n % 10) + 1]>>)
      [] OTHER         -> MkStr(<<"N", "o", "n", "e">>)

\* x == y
PyEq(x, y) ==
    CASE IsNum(x) /\ IsNum(y)         -> x.n = y.n
      [] x.t = "str" /\ y.t = "str"   -> x.s = y.s
      [] x.t = "null" /\ y.t = "null" -> TRUE
      [] OTHER                        -> FALSE

(***************************************************************************)
(* Outcomes of a Python expression: a value, or the exception raised       *)
(***************************************************************************)

Res(b) == [err |-> "", val |-> b]

Raise(e) == [err |-> e, val |-> FALSE]

\* x = e; F(x): the expression is evaluated once and its value is bound, as
\* an assignment does in Python
With(e, F(_)) == CHOOSE r \in {F(x) : x \in {e}} : TRUE

(***************************************************************************)
(* JSON request bodies of POST /api/process                                *)
(***************************************************************************)

JObject(f) == [kind |-> "object", fields |-> f, items |-> <<>>, v |-> Null]

JList(xs) == [kind |-> "list", fields |-> <<>>, items |-> xs, v |-> Null]

JScalar(x) == [kind |-> "scalar", fields |-> <<>>, items |-> <<>>, v |-> x]

\* not payload
Falsy(data) ==
    CASE data.kind = "object" -> DOMAIN data.fields = {}
      [] data.kind = "list"   -> data.items = <<>>
      [] data.v.t = "str"     -> data.v.s = <<>>
      [] data.v.t = "null"    -> TRUE
      [] OTHER                -> data.v.n = 0

\* key in data
KeyIn(key, data) ==
    CASE data.kind = "object" -> Res(key \in DOMAIN data.fields)
      [] data.kind = "list"   ->
            Res(\E i \in 1..Len(data.items) : PyEq(data.items[i], MkStr(key)))
      [] data.v.t = "str"     -> Res(Contains(data.v.s, key))
      [] OTHER                -> Raise("TypeError")

\* data[key] with a str key
GetItem(data, key) ==
    IF data.kind = "object"
    THEN [err |-> "", val |-> data.fields[key]]
    ELSE [err |-> "TypeError", val |-> Null]

(***************************************************************************)
(* The texts that requests carry                                           *)
(***************************************************************************)

T_MOQ == <<"M", "O", "Q", " ", "<", " ", "1", "0", "0">>

T_Price == <<"P", "r", "i", "c", "e", " ", ">", " ", "1", "0">>

\* no operator: parse_condition raises ValueError
T_Bad == <<"P", "r", "i", "c", "e", " ", "1", "0">>

K_MOQ == <<"M", "O", "Q">>

K_Price == <<"P", "r", "i", "c", "e">>

\* every condition text of a request
ConditionTexts == {T_MOQ, T_Price, T_Bad}

(***************************************************************************)
(* RuleEngine                                                              *)
(***************************************************************************)

\* the operators with the one-character ones tried first
OperatorOrder_short_first == <<"=", ">", "<", ">=", "<=", "!=">>

\* the order in which parse_condition looks for an operator
OperatorOrder == <<">=", "<=", "!=", "=", ">", "<">>

OpText(op) ==
    CASE op = ">=" -> <<">", "=">>
      [] op = "<=" -> <<"<", "=">>
      [] op = "!=" -> <<"!", "=">>
      [] op = "="  -> <<"=">>
      [] op = ">"  -> <<">">>
      [] op = "<"  -> <<"<">>

Compare(op, a, b) ==
    CASE op = "<"  -> a < b
      [] op = ">"  -> a > b
      [] op = "<=" -> a <= b
      [] op = ">=" -> a >= b

\* self.operators[op](x, y)
operators(op, x, y) ==
    CASE op = "="  -> Res(PyEq(x, y))
      [] op = "!=" -> Res(~PyEq(x, y))
      [] OTHER     ->
            With(FloatOf(x), LAMBDA fx :
                IF fx.err # "" THEN Raise(fx.err)
                ELSE With(FloatOf(y), LAMBDA fy :
                        IF fy.err # "" THEN Raise(fy.err)
                        ELSE Res(Compare(op, fx.n, fy.n))))

\* the operand of a condition, converted to a number when float() accepts it
CoerceOperand(chars) ==
    LET f == FloatOfText(chars)
    IN  IF f.err # "" THEN MkStr(chars)
        ELSE IF f.n % 10 = 0 THEN MkInt(f.n \div 10)
        ELSE MkFloat(f.n)

NoCondition == [err |-> "ValueError", key |-> <<>>, operator |-> "", value |-> Null]

\* the first operator of OperatorOrder that the text holds
FirstOperator(cond) ==
    With({i \in 1..Len(OperatorOrder) : Contains(cond, OpText(OperatorOrder[i]))},
         LAMBDA found :
            IF found = {} THEN ""
            ELSE OperatorOrder[CHOOSE i \in found : \A j \in found : i <= j])

parse_condition(condition) ==
    With(Strip(condition), LAMBDA cond :
    With(FirstOperator(cond), LAMBDA op :
        IF op = "" THEN NoCondition
        ELSE With(SplitOnce(cond, OpText(op)), LAMBDA parts :
                [err      |-> "",
                 key      |-> Strip(parts[1]),
                 operator |-> op,
                 value    |-> CoerceOperand(StripSet(Strip(parts[2]), {"\"", "'"}))])))

evaluate_condition(condition, data) ==
    With(KeyIn(condition.key, data), LAMBDA present :
        IF present.err # "" THEN Raise(present.err)
        ELSE IF ~present.val THEN Res(FALSE)
        ELSE With(GetItem(data, condition.key), LAMBDA actual :
                IF actual.err # "" THEN Raise(actual.err)
                ELSE With(operators(condition.operator, actual.val, condition.value),
                          LAMBDA first :
                            IF first.err \in {"ValueError", "TypeError"}
                            THEN operators(condition.operator,
                                           StrOf(actual.val), StrOf(condition.value))
                            ELSE first)))

\* [parse_condition(c) for c in or_group.split(' AND ')]
ParseGroup(or_group) ==
    With(Split(or_group, <<" ", "A", "N", "D", " ">>), LAMBDA and_conditions :
        [c \in 1..Len(and_conditions) |-> parse_condition(and_conditions[c])])

ParseText(rule_text) ==
    With(Split(rule_text, <<" ", "O", "R", " ">>), LAMBDA or_groups :
    With([g \in 1..Len(or_groups) |-> ParseGroup(or_groups[g])], LAMBDA parsed :
        IF \E g \in 1..Len(parsed) : \E c \in 1..Len(parsed[g]) : parsed[g][c].err # ""
        THEN [err |-> "ValueError", groups |-> <<>>]
        ELSE [err |-> "", groups |-> parsed]))

\* ParseText of the texts of the requests, each computed once
ParseCache == [t \in ConditionTexts |-> ParseText(t)]

parse_rule(rule_text) ==
    IF rule_text \in ConditionTexts THEN ParseCache[rule_text] ELSE ParseText(rule_text)

\* all(evaluate_condition(c, data) for c in or_group): stops at the first False
RECURSIVE AllConditions(_, _)
AllConditions(or_group, data) ==
    IF or_group = <<>> THEN Res(TRUE)
    ELSE With(evaluate_condition(Head(or_group), data), LAMBDA r :
            IF r.err # "" THEN r
            ELSE IF ~r.val THEN Res(FALSE)
            ELSE AllConditions(Tail(or_group), data))

\* evaluate_rule with the groups joined by AND: every group must hold
RECURSIVE evaluate_rule_every_group(_, _)
evaluate_rule_every_group(rule_conditions, data) ==
    IF rule_conditions = <<>> THEN Res(TRUE)
    ELSE With(AllConditions(Head(rule_conditions), data), LAMBDA r :
            IF r.err # "" THEN r
            ELSE IF ~r.val THEN Res(FALSE)
            ELSE evaluate_rule_every_group(Tail(rule_conditions), data))

RECURSIVE evaluate_rule(_, _)
evaluate_rule(rule_conditions, data) ==
    IF rule_conditions = <<>> THEN Res(FALSE)
    ELSE With(AllConditions(Head(rule_conditions), data), LAMBDA r :
            IF r.err # "" THEN r
            ELSE IF r.val THEN Res(TRUE)
            ELSE evaluate_rule(Tail(rule_conditions), data))

(***************************************************************************)
(* Bounds of the model and constants of the program                        *)
(***************************************************************************)

\* rule ids ever handed out by uuid4 (created and imported rules together)
MaxRules == 2

\* classification calls that are accepted, with every handler in play
MaxProcess == 1

\* classification calls that are accepted, in the specifications of the
\* pipeline alone
MaxPipeline == 2

\* the last value of the clock, in hours
MaxClock == 2

\* processed_data keeps the last 1000 entries
HistoryCap == 1000

\* timedelta(hours=24), in hours
Day == 24

\* None, for a timestamp that was never set; the clock starts at 1
None == 0

(***************************************************************************)
(* State                                                                   *)
(***************************************************************************)

VARIABLES
    rules_storage,     \* the dict, as the sequence of its items in insertion
                       \* order: [key |-> rule id, rule |-> the rule's dict]
    processed_data,    \* the history list
    statistics_cache,  \* the dict update_statistics_cache rebuilds
    now,               \* datetime.now(), in hours
    next_rule_id,      \* the next uuid4 of a rule
    next_entry_id,     \* the next uuid4 of a history entry
    response,          \* the last request and the response it got
    eval,              \* a condition, a payload and evaluate_condition's outcome
    threads            \* the locals of the process_payload calls in flight,
                       \* one per request thread

vars == <<rules_storage, processed_data, statistics_cache, now,
          next_rule_id, next_entry_id, response, eval, threads>>

(***************************************************************************)
(* The store                                                               *)
(***************************************************************************)

Keys(store) == {store[i].key : i \in 1..Len(store)}

IndexOfKey(store, k) == CHOOSE i \in 1..Len(store) : store[i].key = k

RuleAt(store, k) == store[IndexOfKey(store, k)].rule

\* rules_storage[k] = rule, for a key the dict does not hold yet
Insert(store, k, rule) == Append(store, [key |-> k, rule |-> rule])

\* del rules_storage[k]
Remove(store, k) ==
    LET i == IndexOfKey(store, k)
    IN  SubSeq(store, 1, i - 1) \o SubSeq(store, i + 1, Len(store))

\* dict.get(name, default)
Get(d, name, default) == IF name \in DOMAIN d THEN d[name] ELSE default

\* d.update(data)
DictUpdate(d, data) == data @@ d

NewRule(rule_id, data, t) ==
    [id          |-> rule_id,
     condition   |-> data.condition,
     label       |-> data.label,
     enabled     |-> Get(data, "enabled", TRUE),
     priority    |-> Get(data, "priority", 1),
     created_at  |-> t,
     usage_count |-> 0,
     last_used   |-> None]

(***************************************************************************)
(* update_statistics_cache                                                 *)
(***************************************************************************)

LabelsOf(history) ==
    UNION {{history[i].labels[j] : j \in 1..Len(history[i].labels)} : i \in 1..Len(history)}

\* label_counts: one per occurrence of the label in an entry's labels
LabelCounts(history) ==
    [l \in LabelsOf(history) |->
        Cardinality({ij \in UNION {{<<i, j>> : j \in 1..Len(history[i].labels)} :
                                        i \in 1..Len(history)} :
                        history[ij[1]].labels[ij[2]] = l})]

Labeled(history) == {i \in 1..Len(history) : history[i].labels # <<>>}

\* the cache rebuilt from the history at time t; success_rate is the
\* percentage in hundredths of a percent, rounded down
ComputeStatistics(history, t) ==
    [total_processed     |-> Len(history),
     labels              |-> LabelCounts(history),
     processing_rate_24h |-> Cardinality({i \in 1..Len(history) :
                                            history[i].timestamp > t - Day}),
     success_rate        |-> IF Len(history) > 0
                             THEN (Cardinality(Labeled(history)) * 10000) \div Len(history)
                             ELSE 0,
     last_updated        |-> t]

\* statistics_cache = {}
EmptyCache == <<>>

(***************************************************************************)
(* The handlers, as functions of the state they read.  Each yields the     *)
(* HTTP status and the state it leaves.                                    *)
(***************************************************************************)

\* POST /api/rules
create_rule(store, rule_id, data, t) ==
    IF ~({"condition", "label"} \subseteq DOMAIN data)
    THEN [status |-> 400, store |-> store]
    ELSE IF parse_rule(data.condition).err # ""
    THEN [status |-> 400, store |-> store]
    ELSE [status |-> 201, store |-> Insert(store, rule_id, NewRule(rule_id, data, t))]

\* update_rule with rule.update(data) moved above the syntax check
update_rule_commits_first(store, rule_id, data, t) ==
    IF rule_id \notin Keys(store)
    THEN [status |-> 404, store |-> store]
    ELSE LET i == IndexOfKey(store, rule_id)
             rule == DictUpdate(DictUpdate(store[i].rule, data), [updated_at |-> t])
         IN  IF "condition" \in DOMAIN data /\ parse_rule(data.condition).err # ""
             THEN [status |-> 500, store |-> [store EXCEPT ![i].rule = rule]]
             ELSE [status |-> 200, store |-> [store EXCEPT ![i].rule = rule]]

\* the sort key of get_rules, (-priority, created_at): a sorts before b
ListedBefore(a, b) ==
    \/ -a.priority < -b.priority
    \/ a.priority = b.priority /\ a.created_at < b.created_at

\* sorted(rules, key=...): stable, so rules of equal key keep their order
RECURSIVE SortedRules(_)
SortedRules(rules) ==
    IF rules = <<>> THEN <<>>
    ELSE LET first == CHOOSE a \in 1..Len(rules) :
                         /\ \A b \in 1..Len(rules) : ~ListedBefore(rules[b], rules[a])
                         /\ \A b \in 1..(a - 1) : ListedBefore(rules[b], rules[a])
                                                    \/ ListedBefore(rules[a], rules[b])
         IN  <<rules[first]>> \o
             SortedRules(SubSeq(rules, 1, first - 1) \o SubSeq(rules, first + 1, Len(rules)))

\* rules_storage.values()
Values(store) == [i \in 1..Len(store) |-> store[i].rule]

\* get_rules without the sort
get_rules_unsorted(store) == Values(store)

\* GET /api/rules
get_rules(store) == SortedRules(Values(store))

\* PUT /api/rules/<rule_id>: a condition that does not parse raises inside
\* the try block, and the handler answers 500
update_rule(store, rule_id, data, t) ==
    IF rule_id \notin Keys(store)
    THEN [status |-> 404, store |-> store]
    ELSE IF "condition" \in DOMAIN data /\ parse_rule(data.condition).err # ""
    THEN [status |-> 500, store |-> store]
    ELSE LET i == IndexOfKey(store, rule_id)
             rule == DictUpdate(DictUpdate(store[i].rule, data), [updated_at |-> t])
         IN  [status |-> 200, store |-> [store EXCEPT ![i].rule = rule]]

\* DELETE /api/rules/<rule_id>
delete_rule(store, rule_id) ==
    IF rule_id \notin Keys(store)
    THEN [status |-> 404, store |-> store]
    ELSE [status |-> 200, store |-> Remove(store, rule_id)]

\* POST /api/rules/<rule_id>/toggle
toggle_rule(store, rule_id, t) ==
    IF rule_id \notin Keys(store)
    THEN [status |-> 404, store |-> store]
    ELSE LET i == IndexOfKey(store, rule_id)
             rule == DictUpdate(store[i].rule,
                                [enabled |-> ~store[i].rule.enabled, updated_at |-> t])
         IN  [status |-> 200, store |-> [store EXCEPT ![i].rule = rule]]

\* list.sort(key=priority, reverse=True) of positions of the store: stable,
\* so positions of equal priority keep their order
RECURSIVE SortByPriority(_, _)
SortByPriority(store, positions) ==
    IF positions = <<>> THEN <<>>
    ELSE LET best == CHOOSE a \in 1..Len(positions) :
                        /\ \A b \in 1..Len(positions) :
                              store[positions[b]].rule.priority
                                 <= store[positions[a]].rule.priority
                        /\ \A b \in 1..(a - 1) :
                              store[positions[b]].rule.priority
                                 < store[positions[a]].rule.priority
         IN  <<positions[best]>> \o
             SortByPriority(store, SubSeq(positions, 1, best - 1) \o
                                   SubSeq(positions, best + 1, Len(positions)))

\* [rule for rule in rules_storage.values() if rule['enabled']], as positions
RECURSIVE EnabledPositions(_, _)
EnabledPositions(store, i) ==
    IF i > Len(store) THEN <<>>
    ELSE (IF store[i].rule.enabled THEN <<i>> ELSE <<>>) \o EnabledPositions(store, i + 1)

\* active_rules without the sort
active_rules_unsorted(store) == EnabledPositions(store, 1)

active_rules(store) == SortByPriority(store, EnabledPositions(store, 1))

\* the body of the try block of the loop over active_rules, for one rule:
\* "match", "no_match", or "error" when parse_rule or evaluate_rule raises
RuleOutcome(rule, payload) ==
    With(parse_rule(rule.condition), LAMBDA rule_conditions :
        IF rule_conditions.err # "" THEN "error"
        ELSE With(evaluate_rule(rule_conditions.groups, payload), LAMBDA r :
                IF r.err # "" THEN "error"
                ELSE IF r.val THEN "match" ELSE "no_match"))

\* MarkUsed that sets the count instead of adding to it
MarkUsed_sets_one(rule, t) ==
    DictUpdate(rule, [usage_count |-> 1, last_used |-> t])

\* lines 214-216: the usage statistics of a rule that matched
MarkUsed(rule, t) ==
    DictUpdate(rule, [usage_count |-> Get(rule, "usage_count", 0) + 1, last_used |-> t])

\* the loop with the try block around it instead of inside it: the first
\* rule that raises ends the loop
RECURSIVE ApplyRules_stops_at_error(_, _, _, _, _, _)
ApplyRules_stops_at_error(order, store, payload, t, applied_labels, matched_rules) ==
    IF order = <<>>
    THEN [store |-> store, labels |-> applied_labels, matched |-> matched_rules]
    ELSE With(store[Head(order)].rule, LAMBDA rule :
         With(RuleOutcome(rule, payload), LAMBDA outcome :
            IF outcome = "error"
            THEN [store |-> store, labels |-> applied_labels, matched |-> matched_rules]
            ELSE IF outcome = "match"
            THEN With([store EXCEPT ![Head(order)].rule = MarkUsed(rule, t)], LAMBDA marked :
                    ApplyRules_stops_at_error(Tail(order), marked, payload, t,
                                              Append(applied_labels, rule.label),
                                              Append(matched_rules, rule.id)))
            ELSE ApplyRules_stops_at_error(Tail(order), store, payload, t,
                                           applied_labels, matched_rules)))

\* for rule in active_rules: ...
RECURSIVE ApplyRules(_, _, _, _, _, _)
ApplyRules(order, store, payload, t, applied_labels, matched_rules) ==
    IF order = <<>>
    THEN [store |-> store, labels |-> applied_labels, matched |-> matched_rules]
    ELSE With(store[Head(order)].rule, LAMBDA rule :
            IF RuleOutcome(rule, payload) = "match"
            THEN With([store EXCEPT ![Head(order)].rule = MarkUsed(rule, t)], LAMBDA marked :
                    ApplyRules(Tail(order), marked, payload, t,
                               Append(applied_labels, rule.label),
                               Append(matched_rules, rule.id)))
            ELSE ApplyRules(Tail(order), store, payload, t, applied_labels, matched_rules))

\* AppendHistory that pops once the list has reached the capacity
AppendHistory_pops_early(history, entry) ==
    LET longer == Append(history, entry)
    IN  IF Len(longer) >= HistoryCap THEN Tail(longer) ELSE longer

\* processed_data.append(entry), then pop(0) past the capacity
AppendHistory(history, entry) ==
    LET longer == Append(history, entry)
    IN  IF Len(longer) > HistoryCap THEN Tail(longer) ELSE longer

\* POST /api/process
process_payload(store, history, cache, payload, entry_id, t) ==
    IF Falsy(payload)
    THEN [status |-> 400, store |-> store, history |-> history, cache |-> cache,
          labels |-> <<>>, matched |-> <<>>]
    ELSE With(ApplyRules(active_rules(store), store, payload, t, <<>>, <<>>),
              LAMBDA applied :
         With(AppendHistory(history, [id                 |-> entry_id,
                                      payload            |-> payload,
                                      labels             |-> applied.labels,
                                      matched_rules      |-> applied.matched,
                                      timestamp          |-> t,
                                      processing_time_ms |-> 0]),
              LAMBDA after :
                [status |-> 200, store |-> applied.store, history |-> after,
                 cache |-> ComputeStatistics(after, t),
                 labels |-> applied.labels, matched |-> applied.matched]))

\* Importable without the syntax test
Importable_unchecked(rule_data) == {"condition", "label"} \subseteq DOMAIN rule_data

\* the rule_data of an import that are stored: both fields present and a
\* condition that parses
Importable(rule_data) ==
    /\ {"condition", "label"} \subseteq DOMAIN rule_data
    /\ parse_rule(rule_data.condition).err = ""

RECURSIVE ImportLoop(_, _, _, _)
ImportLoop(rules, store, rule_id, t) ==
    IF rules = <<>> THEN store
    ELSE IF Importable(Head(rules))
    THEN ImportLoop(Tail(rules),
                    Insert(store, rule_id,
                           DictUpdate(NewRule(rule_id, Head(rules), t), [imported |-> TRUE])),
                    rule_id + 1, t)
    ELSE ImportLoop(Tail(rules), store, rule_id, t)

\* POST /api/import/rules
import_rules(store, data, rule_id, t) ==
    IF "rules" \notin DOMAIN data
    THEN [status |-> 400, store |-> store]
    ELSE [status |-> 200, store |-> ImportLoop(data.rules, store, rule_id, t)]

(***************************************************************************)
(* Requests                                                                *)
(***************************************************************************)

CreateBodies ==
    { [condition |-> T_MOQ, label |-> "HighPriority", priority |-> 2],
      [condition |-> T_Price, label |-> "Premium"],
      [condition |-> T_Bad, label |-> "Premium"],
      [label |-> "Premium"] }

UpdateBodies ==
    { [condition |-> T_Bad, label |-> "Changed", enabled |-> FALSE],
      [condition |-> T_Price, priority |-> 3] }

ImportBodies ==
    { [rules |-> << [condition |-> T_MOQ, label |-> "Imported"],
                    [condition |-> T_Bad, label |-> "Broken"],
                    [label |-> "NoCondition"] >>],
      [export_timestamp |-> 1] }

Payloads ==
    { JObject((K_MOQ :> MkInt(50)) @@ (K_Price :> MkInt(20))),
      JObject((K_MOQ :> MkStr(<<"f", "r", "e", "e">>)) @@ (K_Price :> MkInt(20))),
      JObject(<<>>),
      JList(<<MkStr(K_MOQ)>>) }

RuleIds == 1..MaxRules

Idle == [op |-> "none", status |-> 0]

NoEval == [phase |-> "off"]

\* no request thread is running
NoThreads == <<>>

(***************************************************************************)
(* Init and the actions: one per request handler, and the clock            *)
(***************************************************************************)

Init ==
    /\ rules_storage = <<>>
    /\ processed_data = <<>>
    /\ statistics_cache = EmptyCache
    /\ now = 1
    /\ next_rule_id = 1
    /\ next_entry_id = 1
    /\ response = Idle
    /\ eval = NoEval
    /\ threads = NoThreads

Tick ==
    /\ now < MaxClock
    /\ now' = now + 1
    /\ UNCHANGED <<rules_storage, processed_data, statistics_cache,
                   next_rule_id, next_entry_id, response, eval, threads>>

CreateFrom(bodies, limit) ==
    \E data \in bodies :
        \E r \in {create_rule(rules_storage, next_rule_id, data, now)} :
            /\ r.status = 201 => next_rule_id <= limit
            /\ rules_storage' = r.store
            /\ next_rule_id' = IF r.status = 201 THEN next_rule_id + 1 ELSE next_rule_id
            /\ response' = [op |-> "create_rule", status |-> r.status, data |-> data]
            /\ UNCHANGED <<processed_data, statistics_cache, now, next_entry_id, eval, threads>>

CreateRule == CreateFrom(CreateBodies, MaxRules)

UpdateFrom(bodies) ==
    \E rule_id \in RuleIds, data \in bodies :
        \E r \in {update_rule(rules_storage, rule_id, data, now)} :
            /\ rules_storage' = r.store
            /\ response' = [op |-> "update_rule", status |-> r.status,
                            rule_id |-> rule_id, data |-> data]
            /\ UNCHANGED <<processed_data, statistics_cache, now,
                           next_rule_id, next_entry_id, eval, threads>>

UpdateRule == UpdateFrom(UpdateBodies)

\* delete_rule that also removes the rule from the entries of the history
DeleteRule_scrubs_history ==
    \E rule_id \in RuleIds :
        \E r \in {delete_rule(rules_storage, rule_id)} :
            /\ rules_storage' = r.store
            /\ processed_data' =
                  [e \in 1..Len(processed_data) |->
                      [processed_data[e] EXCEPT
                          !.matched_rules = SelectSeq(@, LAMBDA id : id # rule_id)]]
            /\ statistics_cache' = IF r.status = 200
                                   THEN ComputeStatistics(processed_data', now)
                                   ELSE statistics_cache
            /\ response' = [op |-> "delete_rule", status |-> r.status, rule_id |-> rule_id]
            /\ UNCHANGED <<now, next_rule_id, next_entry_id, eval, threads>>

DeleteRule ==
    \E rule_id \in RuleIds :
        \E r \in {delete_rule(rules_storage, rule_id)} :
            /\ rules_storage' = r.store
            /\ statistics_cache' = IF r.status = 200
                                   THEN ComputeStatistics(processed_data, now)
                                   ELSE statistics_cache
            /\ response' = [op |-> "delete_rule", status |-> r.status, rule_id |-> rule_id]
            /\ UNCHANGED <<processed_data, now, next_rule_id, next_entry_id, eval, threads>>

ToggleRule ==
    \E rule_id \in RuleIds :
        \E r \in {toggle_rule(rules_storage, rule_id, now)} :
            /\ rules_storage' = r.store
            /\ statistics_cache' = IF r.status = 200
                                   THEN ComputeStatistics(processed_data, now)
                                   ELSE statistics_cache
            /\ response' = [op |-> "toggle_rule", status |-> r.status, rule_id |-> rule_id]
            /\ UNCHANGED <<processed_data, now, next_rule_id, next_entry_id, eval, threads>>

ProcessUpTo(limit) ==
    \E payload \in Payloads :
        \E r \in {process_payload(rules_storage, processed_data, statistics_cache,
                                 payload, next_entry_id, now)} :
            /\ r.status = 200 => next_entry_id <= limit
            /\ rules_storage' = r.store
            /\ processed_data' = r.history
            /\ statistics_cache' = r.cache
            /\ next_entry_id' = IF r.status = 200 THEN next_entry_id + 1 ELSE next_entry_id
            /\ response' = [op |-> "process_payload", status |-> r.status,
                            payload |-> payload, labels |-> r.labels,
                            matched_rules |-> r.matched]
            /\ UNCHANGED <<now, next_rule_id, eval, threads>>

ProcessPayload == ProcessUpTo(MaxProcess)

ImportRules ==
    \E data \in ImportBodies :
        \E r \in {import_rules(rules_storage, data, next_rule_id, now)} :
            /\ next_rule_id + (Len(r.store) - Len(rules_storage)) <= MaxRules + 1
            /\ rules_storage' = r.store
            /\ next_rule_id' = next_rule_id + (Len(r.store) - Len(rules_storage))
            /\ statistics_cache' = IF r.status = 200
                                   THEN ComputeStatistics(processed_data, now)
                                   ELSE statistics_cache
            /\ response' = [op |-> "import_rules", status |-> r.status, data |-> data,
                            imported_count |-> Len(r.store) - Len(rules_storage)]
            /\ UNCHANGED <<processed_data, now, next_entry_id, eval, threads>>

Next ==
    \/ Tick
    \/ CreateRule
    \/ UpdateRule
    \/ DeleteRule
    \/ ToggleRule
    \/ ProcessPayload
    \/ ImportRules

Spec == Init /\ [][Next]_vars

(***************************************************************************)
(* The classification pipeline alone: rules are created and toggled, and   *)
(* payloads are classified MaxPipeline times                               *)
(***************************************************************************)

ProcessMore == ProcessUpTo(MaxPipeline)

NextPipeline ==
    \/ Tick
    \/ CreateRule
    \/ ToggleRule
    \/ ProcessMore

SpecPipeline == Init /\ [][NextPipeline]_vars

(***************************************************************************)
(* The history at its capacity: the state after HistoryCap - 1 or          *)
(* HistoryCap classifications of a payload by an empty store, at time 1.   *)
(* Their entries carry the ids 0, -1, -2, ... from the newest back.        *)
(***************************************************************************)

OldPayload == JObject((K_Price :> MkInt(5)))

Prefilled(n) ==
    [i \in 1..n |-> [id                 |-> i - n,
                     payload            |-> OldPayload,
                     labels             |-> <<>>,
                     matched_rules      |-> <<>>,
                     timestamp          |-> 1,
                     processing_time_ms |-> 0]]

InitFull ==
    /\ rules_storage = <<>>
    /\ processed_data \in {Prefilled(HistoryCap - 1), Prefilled(HistoryCap)}
    /\ statistics_cache = ComputeStatistics(processed_data, 1)
    /\ now = 1
    /\ next_rule_id = 1
    /\ next_entry_id = 1
    /\ response = [op |-> "process_payload", status |-> 200, payload |-> OldPayload,
                   labels |-> <<>>, matched_rules |-> <<>>]
    /\ eval = NoEval
    /\ threads = NoThreads

NextFull ==
    \/ Tick
    \/ CreateRule
    \/ ProcessMore

SpecFull == InitFull /\ [][NextFull]_vars

(***************************************************************************)
(* evaluate_condition as a function: a condition "Price <op> <operand>"    *)
(* is parsed and evaluated against the payload {"Price": value}            *)
(***************************************************************************)

EvalOperands ==
    { <<"5">>, <<"5", ".", "5">>, <<"a", "b", "c">> }

EvalValues ==
    { MkInt(5), MkInt(7), MkFloat(55), MkStr(<<"5">>), MkStr(<<"f", "r", "e", "e">>),
      MkStr(<<"a", "b", "d">>), Null }

EvalOperators == {">=", "<=", "!=", "=", ">", "<"}

ConditionText(key, op, operand) == key \o <<" ">> \o OpText(op) \o <<" ">> \o operand

InitEval ==
    /\ rules_storage = <<>>
    /\ processed_data = <<>>
    /\ statistics_cache = EmptyCache
    /\ now = 1
    /\ next_rule_id = 1
    /\ next_entry_id = 1
    /\ response = Idle
    /\ eval \in {[phase |-> "input", operator |-> op, operand |-> operand, value |-> value] :
                    op \in EvalOperators, operand \in EvalOperands, value \in EvalValues}
    /\ threads = NoThreads

Evaluate ==
    /\ eval.phase = "input"
    /\ \E parsed \in {parse_condition(ConditionText(K_Price, eval.operator, eval.operand))} :
          eval' = [phase     |-> "done",
                   operator  |-> eval.operator,
                   operand   |-> eval.operand,
                   value     |-> eval.value,
                   condition |-> parsed,
                   outcome   |-> evaluate_condition(parsed, JObject((K_Price :> eval.value)))]
    /\ UNCHANGED <<rules_storage, processed_data, statistics_cache, now,
                   next_rule_id, next_entry_id, response, threads>>

NextEval == Evaluate

SpecEval == InitEval /\ [][NextEval]_vars

(***************************************************************************)
(* Updates that carry the fields the server maintains: rule.update(data)   *)
(* copies every field of the body into the stored rule                     *)
(***************************************************************************)

FieldBodies ==
    { [usage_count |-> 5],
      [enabled |-> FALSE] }

UpdateFields == UpdateFrom(FieldBodies)

NextFields ==
    \/ Tick
    \/ CreateRule
    \/ UpdateFields
    \/ DeleteRule
    \/ ToggleRule
    \/ ProcessPayload

SpecFields == Init /\ [][NextFields]_vars

(***************************************************************************)
(* process_payload in request threads.  app.run serves each request in a   *)
(* thread of its own and the handlers take no lock, so the interpreter may *)
(* switch threads between the statements of process_payload: between the   *)
(* read of usage_count and the store of usage_count + 1, and between       *)
(* append and pop(0).                                                      *)
(***************************************************************************)

\* request threads that run process_payload
MaxThreads == 2

ThreadIds == 1..MaxThreads

\* a thread that has not read its request yet
IdleThread ==
    [pc |-> "idle", payload |-> JObject(<<>>), order |-> <<>>,
     labels |-> <<>>, matched |-> <<>>, count |-> 0]

ThreadPayload == JObject((K_MOQ :> MkInt(50)) @@ (K_Price :> MkInt(20)))

\* the keys of the rules of active_rules, in its order: the list holds the
\* rule dicts themselves, which the thread reaches whatever the store does
ActiveKeys(store) ==
    [k \in 1..Len(active_rules(store)) |-> store[active_rules(store)[k]].key]

\* the state a create_rule of "MOQ < 100" leaves, with a history that is
\* empty or full
InitThreads ==
    /\ rules_storage = create_rule(<<>>, 1, [condition |-> T_MOQ, label |-> "HighPriority",
                                              priority |-> 2], 1).store
    /\ processed_data \in {<<>>, Prefilled(HistoryCap)}
    /\ statistics_cache = EmptyCache
    /\ now = 1
    /\ next_rule_id = 2
    /\ next_entry_id = 1
    /\ response = Idle
    /\ eval = NoEval
    /\ threads = [t \in ThreadIds |-> IdleThread]

\* lines 195-204: the payload, active_rules and the two empty lists
Begin(t) ==
    /\ threads[t].pc = "idle"
    /\ threads' = [threads EXCEPT ![t] =
                      [pc |-> "loop", payload |-> ThreadPayload,
                       order |-> ActiveKeys(rules_storage),
                       labels |-> <<>>, matched |-> <<>>, count |-> 0]]
    /\ UNCHANGED <<rules_storage, processed_data, statistics_cache, now,
                   next_rule_id, next_entry_id, response, eval>>

\* lines 207-215: the next rule is evaluated; when it matches, its label
\* and id are appended and rule.get('usage_count', 0) is read
EvaluateNext(t) ==
    /\ threads[t].pc = "loop"
    /\ threads[t].order # <<>>
    /\ \E rule \in {RuleAt(rules_storage, Head(threads[t].order))} :
          threads' = [threads EXCEPT ![t] =
              IF RuleOutcome(rule, threads[t].payload) = "match"
              THEN [@ EXCEPT !.pc = "store",
                             !.labels = Append(@, rule.label),
                             !.matched = Append(@, rule.id),
                             !.count = Get(rule, "usage_count", 0)]
              ELSE [@ EXCEPT !.order = Tail(@)]]
    /\ UNCHANGED <<rules_storage, processed_data, statistics_cache, now,
                   next_rule_id, next_entry_id, response, eval>>

\* lines 215-216: rule['usage_count'] = <the value read> + 1, and last_used
StoreUsage(t) ==
    /\ threads[t].pc = "store"
    /\ \E i \in {IndexOfKey(rules_storage, Head(threads[t].order))} :
          rules_storage' = [rules_storage EXCEPT ![i].rule =
              DictUpdate(@, [usage_count |-> threads[t].count + 1, last_used |-> now])]
    /\ threads' = [threads EXCEPT ![t] = [@ EXCEPT !.pc = "loop", !.order = Tail(@)]]
    /\ UNCHANGED <<processed_data, statistics_cache, now,
                   next_rule_id, next_entry_id, response, eval>>

\* lines 223-232: processed_data.append(processed_entry)
AppendEntry(t) ==
    /\ threads[t].pc = "loop"
    /\ threads[t].order = <<>>
    /\ processed_data' = Append(processed_data,
                                [id                 |-> next_entry_id,
                                 payload            |-> threads[t].payload,
                                 labels             |-> threads[t].labels,
                                 matched_rules      |-> threads[t].matched,
                                 timestamp          |-> now,
                                 processing_time_ms |-> 0])
    /\ next_entry_id' = next_entry_id + 1
    /\ threads' = [threads EXCEPT ![t] = [@ EXCEPT !.pc = "pop"]]
    /\ UNCHANGED <<rules_storage, statistics_cache, now, next_rule_id, response, eval>>

\* lines 235-236: if len(processed_data) > 1000: processed_data.pop(0)
PopOldest(t) ==
    /\ threads[t].pc = "pop"
    /\ processed_data' = IF Len(processed_data) > HistoryCap
                         THEN Tail(processed_data)
                         ELSE processed_data
    /\ threads' = [threads EXCEPT ![t] = [@ EXCEPT !.pc = "cache"]]
    /\ UNCHANGED <<rules_storage, statistics_cache, now,
                   next_rule_id, next_entry_id, response, eval>>

\* lines 239-246: update_statistics_cache() and the response
Respond(t) ==
    /\ threads[t].pc = "cache"
    /\ statistics_cache' = ComputeStatistics(processed_data, now)
    /\ response' = [op |-> "process_payload", status |-> 200,
                    payload |-> threads[t].payload, labels |-> threads[t].labels,
                    matched_rules |-> threads[t].matched]
    /\ threads' = [threads EXCEPT ![t] = [@ EXCEPT !.pc = "done"]]
    /\ UNCHANGED <<rules_storage, processed_data, now,
                   next_rule_id, next_entry_id, eval>>

\* GET /api/health, in a thread of its own: processed_total is
\* len(processed_data) at the moment of the call
HealthCheck ==
    /\ response' = [op |-> "health_check", status |-> 200,
                    processed_total |-> Len(processed_data)]
    /\ UNCHANGED <<rules_storage, processed_data, statistics_cache, now,
                   next_rule_id, next_entry_id, eval, threads>>

NextThreads ==
    \/ \E t \in ThreadIds : Begin(t)
    \/ \E t \in ThreadIds : EvaluateNext(t)
    \/ \E t \in ThreadIds : StoreUsage(t)
    \/ \E t \in ThreadIds : AppendEntry(t)
    \/ \E t \in ThreadIds : PopOldest(t)
    \/ \E t \in ThreadIds : Respond(t)
    \/ HealthCheck

SpecThreads == InitThreads /\ [][NextThreads]_vars

(***************************************************************************)
(* The clock moving by a day between requests, past the 24 hours of        *)
(* update_statistics_cache                                                 *)
(***************************************************************************)

\* days that pass between two requests
MaxDays == 1

TickDay ==
    /\ now + Day <= MaxClock + MaxDays * Day
    /\ now' = now + Day
    /\ UNCHANGED <<rules_storage, processed_data, statistics_cache,
                   next_rule_id, next_entry_id, response, eval, threads>>

NextClock ==
    \/ Tick
    \/ TickDay
    \/ CreateRule
    \/ DeleteRule
    \/ ToggleRule
    \/ ProcessPayload

SpecClock == Init /\ [][NextClock]_vars

(***************************************************************************)
(* The queries of the history: GET /api/processed-data and                 *)
(* GET /api/statistics, on the histories that classifications by two       *)
(* stored rules leave                                                      *)
(***************************************************************************)

\* request.args.get('limit', type=int, default=100)
DefaultLimit == 100

\* timedelta(hours=1), in hours
Hour == 1

\* timedelta(days=7), in hours
Week == 7 * Day

\* the history filtered as both queries filter it; an argument that is absent
\* (None) or empty is not applied
FilterHistory(history, from_date, to_date, label_filter) ==
    LET since == IF from_date # None
                 THEN SelectSeq(history, LAMBDA d : d.timestamp >= from_date)
                 ELSE history
        until == IF to_date # None
                 THEN SelectSeq(since, LAMBDA d : d.timestamp <= to_date)
                 ELSE since
    IN  IF label_filter # ""
        THEN SelectSeq(until, LAMBDA d : \E j \in 1..Len(d.labels) : d.labels[j] = label_filter)
        ELSE until

\* xs[-limit:]
LastSlice(xs, limit) ==
    IF limit > 0
    THEN SubSeq(xs, IF Len(xs) > limit THEN Len(xs) - limit + 1 ELSE 1, Len(xs))
    ELSE SubSeq(xs, 1 - limit, Len(xs))

\* GET /api/processed-data
get_processed_data(history, limit, from_date, to_date, label_filter) ==
    LastSlice(FilterHistory(history, from_date, to_date, label_filter), limit)

\* the entries of a list that are newer than t
NewerThan(data, t) == Cardinality({i \in 1..Len(data) : data[i].timestamp > t})

\* round(count / total * 100, 2), in hundredths of a percent: the nearest
\* hundredth, and the even one of the two when count / total lies halfway
Percentage(count, total) ==
    IF total > 0
    THEN LET q == (count * 10000) \div total
             r == (count * 10000) % total
         IN  IF 2 * r > total \/ (2 * r = total /\ q % 2 = 1) THEN q + 1 ELSE q
    ELSE 0

\* the labels of the entries, one after the other
RECURSIVE AllLabels(_)
AllLabels(data) ==
    IF data = <<>> THEN <<>> ELSE Head(data).labels \o AllLabels(Tail(data))

\* the keys of label_counts in the order the dict holds them: each label
\* where it first occurs
RECURSIVE FirstOccurrences(_, _)
FirstOccurrences(labels, seen) ==
    IF labels = <<>> THEN <<>>
    ELSE IF Head(labels) \in seen THEN FirstOccurrences(Tail(labels), seen)
    ELSE <<Head(labels)>> \o FirstOccurrences(Tail(labels), seen \cup {Head(labels)})

\* lines 299-310: label_counts and the percentages
LabelStats(data) ==
    LET label_counts == LabelCounts(data)
        order == FirstOccurrences(AllLabels(data), {})
    IN  [k \in 1..Len(order) |->
            [label      |-> order[k],
             count      |-> label_counts[order[k]],
             percentage |-> Percentage(label_counts[order[k]], Len(data))]]

\* label_stats.sort(key=lambda x: x['count'], reverse=True): a stable sort,
\* so labels of one count stay in the order they had
RECURSIVE SortByCount(_)
SortByCount(stats) ==
    IF stats = <<>> THEN <<>>
    ELSE LET front == SortByCount(SubSeq(stats, 1, Len(stats) - 1))
             last == stats[Len(stats)]
             k == Cardinality({i \in 1..Len(front) : front[i].count >= last.count})
         IN  SubSeq(front, 1, k) \o <<last>> \o SubSeq(front, k + 1, Len(front))

\* GET /api/statistics: the response, but for rule_effectiveness
get_statistics(history, t, label_filter, from_date, to_date) ==
    LET filtered_data == FilterHistory(history, from_date, to_date, label_filter)
    IN  [total_processed  |-> Len(filtered_data),
         label_counts     |-> LabelCounts(filtered_data),
         label_breakdown  |-> SortByCount(LabelStats(filtered_data)),
         processing_rates |-> [last_hour |-> NewerThan(filtered_data, t - Hour),
                               last_24h  |-> NewerThan(filtered_data, t - Day),
                               last_week |-> NewerThan(filtered_data, t - Week)],
         success_rate     |-> [labeled_records   |-> Cardinality(Labeled(filtered_data)),
                               unlabeled_records |->
                                   Len(filtered_data) - Cardinality(Labeled(filtered_data)),
                               percentage        |->
                                   Percentage(Cardinality(Labeled(filtered_data)),
                                              Len(filtered_data))],
         timestamp        |-> t]

QueryLimits == {0, 1, 2, DefaultLimit}

QueryFrom == {None, 2}

QueryTo == {None, 1}

QueryLabels == {"", "Premium"}

\* the state that two create_rule calls leave
InitQuery ==
    /\ rules_storage =
          create_rule(create_rule(<<>>, 1, [condition |-> T_MOQ, label |-> "HighPriority",
                                           priority |-> 2], 1).store,
                      2, [condition |-> T_Price, label |-> "Premium"], 1).store
    /\ processed_data = <<>>
    /\ statistics_cache = EmptyCache
    /\ now = 1
    /\ next_rule_id = 3
    /\ next_entry_id = 1
    /\ response = Idle
    /\ eval = NoEval
    /\ threads = NoThreads

GetProcessedData ==
    \E limit \in QueryLimits, from_date \in QueryFrom, to_date \in QueryTo,
       label_filter \in QueryLabels :
        /\ response' = [op |-> "get_processed_data", status |-> 200,
                        limit |-> limit, from |-> from_date, to |-> to_date,
                        label |-> label_filter,
                        entries |-> get_processed_data(processed_data, limit, from_date,
                                                       to_date, label_filter)]
        /\ UNCHANGED <<rules_storage, processed_data, statistics_cache, now,
                       next_rule_id, next_entry_id, eval, threads>>

GetStatistics ==
    \E label_filter \in QueryLabels, from_date \in QueryFrom, to_date \in QueryTo :
        /\ response' = [op |-> "get_statistics", status |-> 200,
                        from |-> from_date, to |-> to_date, label |-> label_filter,
                        body |-> get_statistics(processed_data, now, label_filter,
                                                from_date, to_date)]
        /\ UNCHANGED <<rules_storage, processed_data, statistics_cache, now,
                       next_rule_id, next_entry_id, eval, threads>>

NextQuery ==
    \/ Tick
    \/ ProcessMore
    \/ GetProcessedData
    \/ GetStatistics

SpecQuery == InitQuery /\ [][NextQuery]_vars

(***************************************************************************)
(* The listing of the rules: GET /api/rules on stores of up to MaxListed   *)
(* rules of three priorities                                               *)
(***************************************************************************)

\* rule ids handed out where the rules are listed
MaxListed == 3

ListBodies ==
    { [condition |-> T_MOQ, label |-> "Low", priority |-> 1],
      [condition |-> T_MOQ, label |-> "Mid", priority |-> 2],
      [condition |-> T_Price, label |-> "High", priority |-> 3] }

ListUpdates == { [priority |-> 3] }

CreateListed == CreateFrom(ListBodies, MaxListed)

UpdateListed == UpdateFrom(ListUpdates)

GetRules ==
    /\ response' = [op |-> "get_rules", status |-> 200, rules |-> get_rules(rules_storage)]
    /\ UNCHANGED <<rules_storage, processed_data, statistics_cache, now,
                   next_rule_id, next_entry_id, eval, threads>>

NextList ==
    \/ Tick
    \/ CreateListed
    \/ UpdateListed
    \/ DeleteRule
    \/ GetRules

SpecList == Init /\ [][NextList]_vars

(***************************************************************************)
(* evaluate_rule as a function: a rule text over the conditions "A = 1",   *)
(* "B = 1" and "C = 1" is parsed and evaluated against a payload in which  *)
(* each of the keys A, B, C holds 1, holds 0, or is absent                 *)
(***************************************************************************)

TruthKeys == {"A", "B", "C"}

Holds == [k \in TruthKeys |-> <<k, " ", "=", " ", "1">>]

AndText == <<" ", "A", "N", "D", " ">>

OrText == <<" ", "O", "R", " ">>

\* the rule texts, by the shape of the expression
TruthTexts ==
    [and_or  |-> Holds["A"] \o AndText \o Holds["B"] \o OrText \o Holds["C"],
     or_and  |-> Holds["A"] \o OrText \o Holds["B"] \o AndText \o Holds["C"],
     and_and |-> Holds["A"] \o AndText \o Holds["B"] \o AndText \o Holds["C"],
     or_or   |-> Holds["A"] \o OrText \o Holds["B"] \o OrText \o Holds["C"]]

\* the payload of an assignment: 1 where the condition is to hold, 0 where
\* it is not, and no key where the field is absent
TruthPayload(assign) ==
    JObject([key \in {<<k>> : k \in {n \in TruthKeys : assign[n] # "absent"}} |->
                IF assign[key[1]] = "true" THEN MkInt(1) ELSE MkInt(0)])

InitTruth ==
    /\ rules_storage = <<>>
    /\ processed_data = <<>>
    /\ statistics_cache = EmptyCache
    /\ now = 1
    /\ next_rule_id = 1
    /\ next_entry_id = 1
    /\ response = Idle
    /\ eval \in {[phase |-> "rule_input", shape |-> shape, assign |-> assign] :
                    shape \in DOMAIN TruthTexts,
                    assign \in [TruthKeys -> {"true", "false", "absent"}]}
    /\ threads = NoThreads

EvaluateRule ==
    /\ eval.phase = "rule_input"
    /\ \E parsed \in {parse_rule(TruthTexts[eval.shape])} :
          /\ parsed.err = ""
          /\ eval' = [phase   |-> "rule_done",
                      shape   |-> eval.shape,
                      assign  |-> eval.assign,
                      groups  |-> parsed.groups,
                      outcome |-> evaluate_rule(parsed.groups, TruthPayload(eval.assign))]
    /\ UNCHANGED <<rules_storage, processed_data, statistics_cache, now,
                   next_rule_id, next_entry_id, response, threads>>

NextTruth == EvaluateRule

SpecTruth == InitTruth /\ [][NextTruth]_vars

(***************************************************************************)
(* parse_rule as a function: the texts "<key> <op> <operand>" of every     *)
(* operator, and texts that hold no operator                               *)
(***************************************************************************)

ParseKeys == { <<"X">>, K_Price }

\* the operands, by the kind of text
ParseOperands ==
    [int    |-> <<"5">>,
     float  |-> <<"5", ".", "5">>,
     whole  |-> <<"5", ".", "0">>,
     text   |-> <<"a", "b", "c">>,
     quoted |-> <<"\"", "a", "b", "c", "\"">>]

\* texts without an operator
NoOperatorTexts == { T_Bad, <<"X">>, <<>> }

InitParse ==
    /\ rules_storage = <<>>
    /\ processed_data = <<>>
    /\ statistics_cache = EmptyCache
    /\ now = 1
    /\ next_rule_id = 1
    /\ next_entry_id = 1
    /\ response = Idle
    /\ eval \in {[phase |-> "parse_input", key |-> key, operator |-> op, operand |-> operand,
                   text |-> ConditionText(key, op, ParseOperands[operand])] :
                     key \in ParseKeys, op \in EvalOperators, operand \in DOMAIN ParseOperands}
              \cup {[phase |-> "parse_input", key |-> <<>>, operator |-> "", operand |-> "",
                     text |-> text] : text \in NoOperatorTexts}
    /\ threads = NoThreads

Parse ==
    /\ eval.phase = "parse_input"
    /\ eval' = [eval EXCEPT !.phase = "parse_done"] @@ [parsed |-> parse_rule(eval.text)]
    /\ UNCHANGED <<rules_storage, processed_data, statistics_cache, now,
                   next_rule_id, next_entry_id, response, threads>>

NextParse == Parse

SpecParse == InitParse /\ [][NextParse]_vars

(***************************************************************************)
(* Every handler that writes, on a history at its capacity                 *)
(***************************************************************************)

HistoryBodies == { [condition |-> T_MOQ, label |-> "HighPriority", priority |-> 2] }

HistoryUpdates == { [condition |-> T_Price, priority |-> 3] }

NextHistory ==
    \/ CreateFrom(HistoryBodies, 1)
    \/ UpdateFrom(HistoryUpdates)
    \/ DeleteRule
    \/ ToggleRule
    \/ ImportRules
    \/ ProcessPayload

SpecHistory == InitFull /\ [][NextHistory]_vars

(***************************************************************************)
(* Updates that carry an id: rule.update(data) copies the body's id into   *)
(* the stored rule, whose key in rules_storage stays the one of the URL    *)
(***************************************************************************)

\* the id 0 is one no rule was ever stored under: uuid4 hands out 1, 2, ...
IdBodies ==
    { [id |-> 0],
      [label |-> "Changed"] }

IdCreates == { [condition |-> T_MOQ, label |-> "HighPriority"] }

UpdateIds == UpdateFrom(IdBodies)

NextIds ==
    \/ CreateFrom(IdCreates, MaxRules)
    \/ UpdateIds
    \/ DeleteRule
    \/ ToggleRule
    \/ ImportRules
    \/ ProcessPayload

SpecIds == Init /\ [][NextIds]_vars

(***************************************************************************)
(* GET /api/statistics over rules that share a label                       *)
(***************************************************************************)

SharedBodies ==
    { [condition |-> T_MOQ, label |-> "Premium", priority |-> 2],
      [condition |-> T_Price, label |-> "Premium"],
      [condition |-> T_Price, label |-> "HighPriority"] }

CreateShared == CreateFrom(SharedBodies, MaxRules)

NextBreakdown ==
    \/ CreateShared
    \/ ProcessMore
    \/ GetStatistics

SpecBreakdown == Init /\ [][NextBreakdown]_vars

(***************************************************************************)
(* Properties                                                              *)
(***************************************************************************)

\* the step is a call of the handler op: the clock steps leave response alone
\* and move now, the handlers leave now alone
CallOf(op) == response'.op = op /\ now' = now

\* the last request was a create or an update whose condition text does not
\* parse
BadConditionRequest ==
    /\ response.op \in {"create_rule", "update_rule"}
    /\ "condition" \in DOMAIN response.data
    /\ parse_rule(response.data.condition).err # ""

\* C1: a create or an update whose condition text fails to parse is rejected
\* (an error status) and leaves the rule store exactly as it was: no rule is
\* added and no field of any stored rule changes.
C1_RejectedMutationKeepsStore ==
    [][(now' = now /\ BadConditionRequest')
          => (response'.status >= 400 /\ rules_storage' = rules_storage)]_vars

\* an update with unparsable condition text was refused for a stored rule
C1_Witness ==
    /\ BadConditionRequest
    /\ response.op = "update_rule"
    /\ response.rule_id \in Keys(rules_storage)
    /\ response.status >= 400

WellFormed(parsed) ==
    /\ parsed.err = ""
    /\ Len(parsed.groups) >= 1
    /\ \A g \in 1..Len(parsed.groups) :
          /\ Len(parsed.groups[g]) >= 1
          /\ \A c \in 1..Len(parsed.groups[g]) :
                parsed.groups[g][c].operator \in EvalOperators

\* C2: in every reachable state every stored rule has condition text that
\* parse_rule accepts: at least one group, every group at least one condition
\* with a recognised operator.
C2_StoreHoldsParsableRules ==
    \A i \in 1..Len(rules_storage) : WellFormed(parse_rule(rules_storage[i].rule.condition))

\* an import that carried unparsable entries stored only the one that parses
C2_Witness ==
    /\ response.op = "import_rules"
    /\ response.status = 200
    /\ response.imported_count = 1
    /\ \E i \in 1..Len(rules_storage) : "imported" \in DOMAIN rules_storage[i].rule

\* C3: the history never holds more than HistoryCap entries; a classification
\* on a history that holds HistoryCap entries removes exactly the oldest entry
\* and appends the new one at the end, the others keeping their order.
C3_BoundedFifoHistory ==
    [][/\ Len(processed_data') <= HistoryCap
       /\ (CallOf("process_payload") /\ response'.status = 200)
             => /\ Len(processed_data') >= 1
                /\ processed_data'[Len(processed_data')].id = next_entry_id
                /\ processed_data'[Len(processed_data')].payload = response'.payload
                /\ IF Len(processed_data) = HistoryCap
                   THEN /\ Len(processed_data') = HistoryCap
                        /\ SubSeq(processed_data', 1, HistoryCap - 1) = Tail(processed_data)
                   ELSE SubSeq(processed_data', 1, Len(processed_data') - 1) = processed_data
      ]_vars

\* the history is full after two classifications, and the oldest entry of the
\* start has been evicted
C3_Witness ==
    /\ Len(processed_data) = HistoryCap
    /\ processed_data[HistoryCap].id = 2
    /\ processed_data[1].id > 2 - HistoryCap

\* what a classification of the payload leaves of a rule of the store
AfterClassification(rule, payload, t) ==
    IF rule.enabled /\ RuleOutcome(rule, payload) = "match"
    THEN [rule EXCEPT !.usage_count = @ + 1, !.last_used = t]
    ELSE rule

\* C4: a classification adds 1 to usage_count and sets last_used of each
\* enabled rule whose expression is true of the payload, and leaves every
\* other rule, every other field and the set of rules unchanged.
C4_UsageOfMatchingRulesOnly ==
    [][CallOf("process_payload")
          => /\ Len(rules_storage') = Len(rules_storage)
             /\ \A i \in 1..Len(rules_storage) :
                   /\ rules_storage'[i].key = rules_storage[i].key
                   /\ rules_storage'[i].rule =
                         IF response'.status = 200
                         THEN AfterClassification(rules_storage[i].rule,
                                                  response'.payload, now)
                         ELSE rules_storage[i].rule]_vars

\* a rule that matched twice beside a disabled rule that was never counted
C4_Witness ==
    /\ response.op = "process_payload"
    /\ response.status = 200
    /\ \E i, j \in 1..Len(rules_storage) :
          /\ rules_storage[i].rule.usage_count = 2
          /\ ~rules_storage[j].rule.enabled
          /\ rules_storage[j].rule.usage_count = 0
          /\ RuleOutcome(rules_storage[j].rule, response.payload) = "match"

\* the positions of the enabled rules that match the payload
Matching(store, payload) ==
    {i \in 1..Len(store) :
        store[i].rule.enabled /\ RuleOutcome(store[i].rule, payload) = "match"}

\* position i comes before position j: higher priority, or the same
\* priority and inserted earlier
Before(store, i, j) ==
    \/ store[i].rule.priority > store[j].rule.priority
    \/ store[i].rule.priority = store[j].rule.priority /\ i < j

\* the matching positions in priority order
Expected(store, payload) ==
    [k \in 1..Cardinality(Matching(store, payload)) |->
        CHOOSE i \in Matching(store, payload) :
            Cardinality({j \in Matching(store, payload) : Before(store, j, i)}) = k - 1]

\* C5: a classification returns the labels and the ids of the enabled rules
\* whose expression is true of the payload, by descending priority, equal
\* priorities in insertion order, labels[k] and matched_rules[k] of the same
\* rule; a disabled rule contributes nothing.
C5_LabelsInPriorityOrder ==
    [][(CallOf("process_payload") /\ response'.status = 200)
          => LET order == Expected(rules_storage, response'.payload)
             IN  /\ response'.labels =
                        [k \in 1..Len(order) |-> rules_storage[order[k]].rule.label]
                 /\ response'.matched_rules =
                        [k \in 1..Len(order) |-> rules_storage[order[k]].rule.id]]_vars

\* two rules matched and the later one, of higher priority, came first
C5_Witness ==
    /\ response.op = "process_payload"
    /\ response.status = 200
    /\ response.matched_rules = <<2, 1>>
    /\ Len(response.labels) = 2

\* the positions of the enabled rules whose evaluation raises
Raising(store, payload) ==
    {i \in 1..Len(store) :
        store[i].rule.enabled /\ RuleOutcome(store[i].rule, payload) = "error"}

\* C6: when the evaluation of an enabled rule raises, that rule is skipped
\* (no label, no usage change) and the call completes: the other matching
\* rules are still returned, and exactly one history entry is appended.
C6_RaisingRuleIsSkipped ==
    [][(CallOf("process_payload") /\ ~Falsy(response'.payload)
            /\ Raising(rules_storage, response'.payload) # {})
          => /\ response'.status = 200
             /\ \A i \in Raising(rules_storage, response'.payload) :
                   /\ rules_storage'[i] = rules_storage[i]
                   /\ \A k \in 1..Len(response'.matched_rules) :
                         response'.matched_rules[k] # rules_storage[i].rule.id
             /\ \A i \in Matching(rules_storage, response'.payload) :
                   \E k \in 1..Len(response'.matched_rules) :
                      /\ response'.matched_rules[k] = rules_storage[i].rule.id
                      /\ response'.labels[k] = rules_storage[i].rule.label
             /\ Len(processed_data') = Len(processed_data) + 1
             /\ SubSeq(processed_data', 1, Len(processed_data)) = processed_data]_vars

\* a rule raised, and a rule of lower priority was still matched
C6_Witness ==
    /\ response.op = "process_payload"
    /\ response.status = 200
    /\ \E i \in Raising(rules_storage, response.payload) :
          \E j \in Matching(rules_storage, response.payload) :
             /\ Before(rules_storage, i, j)
             /\ response.labels = <<rules_storage[j].rule.label>>

\* the characters of the evaluated texts, by code point
CodeOrder ==
    <<" ", ".", "0", "1", "2", "3", "4", "5", "6", "7", "8", "9",
      "N", "a", "b", "c", "d", "e", "f", "n", "o", "r">>

CodePoint(c) == CHOOSE i \in 1..Len(CodeOrder) : CodeOrder[i] = c

\* a < b for two texts: the first differing character decides, and a proper
\* prefix is smaller
RECURSIVE TextLess(_, _)
TextLess(a, b) ==
    IF b = <<>> THEN FALSE
    ELSE IF a = <<>> THEN TRUE
    ELSE IF Head(a) = Head(b) THEN TextLess(Tail(a), Tail(b))
    ELSE CodePoint(Head(a)) < CodePoint(Head(b))

TextCompare(op, a, b) ==
    CASE op = "<"  -> TextLess(a, b)
      [] op = ">"  -> TextLess(b, a)
      [] op = "<=" -> ~TextLess(b, a)
      [] op = ">=" -> ~TextLess(a, b)

\* C7: for an ordering operator, when the payload value or the operand is not
\* numeric, the condition evaluates to the comparison of their texts with the
\* same operator: a definite boolean, never an error.
C7_TextComparisonFallback ==
    (/\ eval.phase = "done"
     /\ eval.operator \in {"<", ">", "<=", ">="}
     /\ (FloatOf(eval.value).err # "" \/ ~IsNum(eval.condition.value)))
       => eval.outcome = Res(TextCompare(eval.operator, StrOf(eval.value).s,
                                         StrOf(eval.condition.value).s))

\* a payload value coerced as an operand is
Coerced(v) == IF v.t = "str" THEN CoerceOperand(v.s) ELSE v

\* C8: the payload value is coerced as the operand is before it is compared,
\* so = and != see the text "5" as equal to the operand 5.
C8_PayloadValueCoerced ==
    (eval.phase = "done" /\ eval.operator \in {"=", "!="})
       => eval.outcome = Res((eval.operator = "=")
                                = PyEq(Coerced(eval.value), eval.condition.value))

\* C9: a classification of an empty payload or of one that is not a JSON
\* object is answered 400; it appends no history entry and changes no rule and
\* not the statistics cache.
C9_NonObjectPayloadRejected ==
    [][(/\ CallOf("process_payload")
        /\ (Falsy(response'.payload) \/ response'.payload.kind # "object"))
          => /\ response'.status = 400
             /\ UNCHANGED <<processed_data, rules_storage, statistics_cache>>]_vars

\* C10: an update of a stored rule with condition text that does not parse is
\* answered 400, as a create is.
C10_BadUpdateAnswers400 ==
    (/\ BadConditionRequest
     /\ response.op = "update_rule"
     /\ response.rule_id \in Keys(rules_storage))
       => response.status = 400

\* the entries of the history whose matched rule ids hold the id
MatchesOf(history, rule_id) ==
    {e \in 1..Len(history) :
        \E k \in 1..Len(history[e].matched_rules) : history[e].matched_rules[k] = rule_id}

\* C11: in every reachable state the usage_count of each stored rule is the
\* number of classifications, since the rule was created, in which the rule
\* matched; nothing but a matching classification changes it.
C11_UsageCountsMatches ==
    \A i \in 1..Len(rules_storage) :
        rules_storage[i].rule.usage_count
            = Cardinality(MatchesOf(processed_data, rules_storage[i].key))

\* the calls of process_payload that have returned
Completed == {t \in DOMAIN threads : threads[t].pc = "done"}

\* C12: concurrent classifications are atomic to one another: once N calls
\* that each matched rule R have returned and none is in flight, R's
\* usage_count has grown by N; and no reader sees more than HistoryCap
\* entries in the history.
C12_ConcurrentCallsAreAtomic ==
    /\ (response.op = "health_check" => response.processed_total <= HistoryCap)
    /\ (Completed = DOMAIN threads /\ threads # NoThreads)
          => \A i \in 1..Len(rules_storage) :
                rules_storage[i].rule.usage_count
                    = Cardinality({t \in Completed :
                          \E k \in 1..Len(threads[t].matched) :
                              threads[t].matched[k] = rules_storage[i].key})

\* the fields of the cache that are derived from the history
DerivedFields == {"total_processed", "labels", "processing_rate_24h", "success_rate"}

\* C13: in every reachable state, and as the clock advances between calls,
\* the statistics cache, once it has been built, holds the total, the label
\* counts, the 24-hour rate and the success rate that a recomputation from
\* the history at that moment yields.
C13_CacheEqualsRecomputation ==
    statistics_cache # EmptyCache
       => \A f \in DerivedFields :
             statistics_cache[f] = ComputeStatistics(processed_data, now)[f]

\* the step removes the rule of position i, or turns it from enabled to
\* disabled
Disables(i) ==
    /\ i \in 1..Len(rules_storage)
    /\ rules_storage[i].rule.enabled
    /\ \/ rules_storage[i].key \notin Keys(rules_storage')
       \/ ~RuleAt(rules_storage', rules_storage[i].key).enabled

\* C14: every delete, toggle or update that removes a rule or turns it from
\* enabled to disabled leaves a statistics cache recomputed at the time of the
\* call.
C14_DisablingRecomputesCache ==
    [][(/\ now' = now
        /\ response'.op \in {"delete_rule", "toggle_rule", "update_rule"}
        /\ \E i \in 1..Len(rules_storage) : Disables(i))
          => statistics_cache' = ComputeStatistics(processed_data', now)]_vars

\* the entry passes the filters of a query
Passes(d, from_date, to_date, label_filter) ==
    /\ from_date # None => d.timestamp >= from_date
    /\ to_date # None => d.timestamp <= to_date
    /\ label_filter # "" => \E j \in 1..Len(d.labels) : d.labels[j] = label_filter

\* the positions of the history that pass the filters, the most recent first
RecentFirst(history, from_date, to_date, label_filter) ==
    LET pass == {i \in 1..Len(history) : Passes(history[i], from_date, to_date, label_filter)}
    IN  [k \in 1..Cardinality(pass) |->
            CHOOSE i \in pass : Cardinality({j \in pass : j > i}) = k - 1]

\* C15: GET /processed-data with limit L returns at most L of the entries that
\* pass the filters, the L most recent ones, the most recent first.
C15_MostRecentFirst ==
    response.op = "get_processed_data"
       => LET recent == RecentFirst(processed_data, response.from, response.to,
                                    response.label)
              n == IF Len(recent) > response.limit THEN response.limit ELSE Len(recent)
          IN  response.entries = [k \in 1..n |-> processed_data[recent[k]]]

\* C16: the processing rates of GET /statistics count all the entries of the
\* history whose timestamp is within the last hour, 24 hours and 7 days of the
\* call, whatever label and from/to filters the request carries.
C16_RatesIgnoreFilters ==
    response.op = "get_statistics"
       => response.body.processing_rates =
             [last_hour |-> NewerThan(processed_data, response.body.timestamp - Hour),
              last_24h  |-> NewerThan(processed_data, response.body.timestamp - Day),
              last_week |-> NewerThan(processed_data, response.body.timestamp - Week)]

\* the listing holds every rule of the store once, by descending priority,
\* rules of one priority by ascending created_at
Listing(rules, store) ==
    /\ Len(rules) = Len(store)
    /\ \A i \in 1..Len(store) :
          Cardinality({k \in 1..Len(rules) : rules[k] = store[i].rule}) = 1
    /\ \A k \in 1..(Len(rules) - 1) :
          \/ rules[k].priority > rules[k + 1].priority
          \/ /\ rules[k].priority = rules[k + 1].priority
             /\ rules[k].created_at <= rules[k + 1].created_at

\* C17: GET /rules returns every stored rule exactly once, by descending
\* priority, rules of equal priority by ascending created_at.
C17_RulesListedByPriority ==
    [][(response'.op = "get_rules" /\ now' = now /\ rules_storage' = rules_storage)
          => Listing(response'.rules, rules_storage)]_vars

\* rules created with the priorities 1, 3, 2 are listed as 3, 2, 1
C17_Witness ==
    /\ response.op = "get_rules"
    /\ [i \in 1..Len(rules_storage) |-> rules_storage[i].rule.priority] = <<1, 3, 2>>
    /\ [k \in 1..Len(response.rules) |-> response.rules[k].priority] = <<3, 2, 1>>
    /\ [k \in 1..Len(response.rules) |-> response.rules[k].id] = <<2, 3, 1>>

\* the condition on key k is true: the key is present and holds 1
IsTrue(k) == eval.assign[k] = "true"

\* the truth of the expression of each shape
TruthOf(shape) ==
    CASE shape = "and_or"  -> (IsTrue("A") /\ IsTrue("B")) \/ IsTrue("C")
      [] shape = "or_and"  -> IsTrue("A") \/ (IsTrue("B") /\ IsTrue("C"))
      [] shape = "and_and" -> IsTrue("A") /\ IsTrue("B") /\ IsTrue("C")
      [] shape = "or_or"   -> IsTrue("A") \/ IsTrue("B") \/ IsTrue("C")

\* C18: an expression is true iff at least one OR group has all its AND
\* conditions true, a condition on an absent key being false: "A AND B OR C"
\* evaluates to (A and B) or C under every assignment.
C18_TruthTable ==
    eval.phase = "rule_done" => eval.outcome = Res(TruthOf(eval.shape))

\* "A AND B OR C" with A absent and C true: the second group makes it true
C18_Witness ==
    /\ eval.phase = "rule_done"
    /\ eval.shape = "and_or"
    /\ eval.assign = [A |-> "absent", B |-> "true", C |-> "true"]
    /\ Len(eval.groups) = 2
    /\ eval.outcome = Res(TRUE)

\* the value each operand is to become: an Integer, a Float, or the Text
\* without its quotes
ExpectedValue ==
    [int    |-> MkInt(5),
     float  |-> MkFloat(55),
     whole  |-> MkInt(5),
     text   |-> MkStr(<<"a", "b", "c">>),
     quoted |-> MkStr(<<"a", "b", "c">>)]

\* C19: the text "K op V" of each of the six operators parses to one group
\* of one condition with the key K, the operator op itself and the value V
\* coerced; a text that holds none of the operators is a parse error.
C19_OperatorTokenization ==
    eval.phase = "parse_done"
       => IF eval.operator = ""
          THEN eval.parsed.err # ""
          ELSE /\ eval.parsed.err = ""
               /\ Len(eval.parsed.groups) = 1
               /\ Len(eval.parsed.groups[1]) = 1
               /\ eval.parsed.groups[1][1].key = eval.key
               /\ eval.parsed.groups[1][1].operator = eval.operator
               /\ eval.parsed.groups[1][1].value = ExpectedValue[eval.operand]

\* "X != 5" was parsed with the operator != and the Integer 5
C19_Witness ==
    /\ eval.phase = "parse_done"
    /\ eval.text = <<"X", " ", "!", "=", " ", "5">>
    /\ eval.parsed.err = ""
    /\ eval.parsed.groups[1][1].operator = "!="
    /\ eval.parsed.groups[1][1].value = MkInt(5)

\* C20: a history entry is never changed after it is appended: every step
\* leaves the history as it is, or is a classification that appends one entry
\* behind the unchanged others, the oldest of which leaves when, and only
\* when, the history was at its capacity.
C20_HistoryEntriesImmutable ==
    [][\/ processed_data' = processed_data
       \/ /\ response'.op = "process_payload"
          /\ Len(processed_data') >= 1
          /\ SubSeq(processed_data', 1, Len(processed_data') - 1)
                = IF Len(processed_data) = HistoryCap
                  THEN Tail(processed_data)
                  ELSE processed_data]_vars

\* the oldest entry was evicted, and the rule that the newest entry names
\* has been deleted since
C20_Witness ==
    /\ response.op = "delete_rule"
    /\ response.status = 200
    /\ Len(processed_data) = HistoryCap
    /\ processed_data[1].id = 2 - HistoryCap
    /\ processed_data[HistoryCap].matched_rules = <<response.rule_id>>

\* every rule is stored under the key its id field holds
StoredUnderOwnId ==
    \A i \in 1..Len(rules_storage) : rules_storage[i].rule.id = rules_storage[i].key

\* C21: in every state reached by creates, updates, imports, toggles and
\* deletes, each stored rule's id field equals the key it is stored under;
\* so every id a classification records in matched_rules names a rule that
\* is stored under that id when the classification runs.
C21_IdEqualsKey ==
    /\ [] StoredUnderOwnId
    /\ [][CallOf("process_payload") =>
            \A k \in 1..Len(response'.matched_rules) :
                response'.matched_rules[k] \in Keys(rules_storage)]_vars

\* C22: in the response of GET /statistics every label of label_breakdown
\* has a count of at most total_processed and a percentage of at most 100,
\* and labeled_records + unlabeled_records is total_processed, whatever the
\* rules and the history, rules that share a label and match one payload
\* included.
C22_BreakdownBounded ==
    response.op = "get_statistics"
       => /\ \A k \in 1..Len(response.body.label_breakdown) :
                /\ response.body.label_breakdown[k].count <= response.body.total_processed
                /\ response.body.label_breakdown[k].percentage <= 10000
          /\ response.body.success_rate.labeled_records
                + response.body.success_rate.unlabeled_records
                   = response.body.total_processed

====
